---- MODULE Spec2Model ----
(***************************************************************************)
(* The ID leak verifier of sui-verifier (id_leak_verifier.rs): a forward   *)
(* abstract interpretation over {ID, NonID} that rejects a function when   *)
(* the id extracted by Unpack from a key struct reaches a sink.            *)
(*                                                                         *)
(* The operand stack is a sequence whose LAST element is the top (Vec::push*)
(* and Vec::pop work at the end).  Tables of the binary view are functions *)
(* over 0-based indices, as the handle indices of the file format are.     *)
(***************************************************************************)
EXTENDS Integers, Naturals, Sequences, FiniteSets, TLC

\* ------------------------------------------------------------------ bounds
MaxLocals == 2
MaxStack == 3
MaxArgs == 2
MaxFields == 2
MaxVec == 2
MaxFuncs == 2
MaxBlocks == 3
MaxBlockLen == 3
MaxCode == 7
MaxLaterCode == 3
MaxParams == 1
MaxCodeLocals == 1
MaxReturns == 1
\* The analyses of one block the model follows before it stops counting.
MaxVisits == 5

\* ------------------------------------------------------- abstract values
ID == "ID"
NonID == "NonID"
AbstractValue == {ID, NonID}

\* A join that keeps the incoming value when the two differ.
AbstractValue_join_keep(self, value) == value

\* A join that gives ID only when both values are ID.
AbstractValue_join_meet(self, value) == IF self = value THEN value ELSE NonID

AbstractValue_join(self, value) == IF self = value THEN value ELSE ID

\* ------------------------------------------------------- results
\* PartialVMResult<()> and the ways a call can end.  message is the sequence
\* of the pieces the text is made of (format! joins them).
OkResult == [kind |-> "Ok", status |-> "", message |-> <<>>]

PanicResult(why) == [kind |-> "Panic", status |-> "", message |-> <<why>>]

UnwrapNone == PanicResult("called Option::unwrap() on a None value")

InvariantViolation ==
    [kind |-> "Err", status |-> "UNKNOWN_INVARIANT_VIOLATION_ERROR", message |-> <<>>]

\* A leak reported under the status of the invariant violations.
move_verification_error_as_invariant(msg) ==
    [kind |-> "Err", status |-> "UNKNOWN_INVARIANT_VIOLATION_ERROR",
     message |-> <<"Sui Move Bytecode Verification Error: ">> \o msg]

move_verification_error(msg) ==
    [kind |-> "Err", status |-> "UNKNOWN_VERIFICATION_ERROR",
     message |-> <<"Sui Move Bytecode Verification Error: ">> \o msg]

\* The five texts of the leak errors, each cut into the pieces it is made of.
MsgCall == <<"ID leaked ", "through function call", ".">>
MsgPack == <<"ID is leaked ", "into a struct", ".">>
MsgWriteRef == <<"ID is leaked ", "to a reference", ".">>
MsgRet == <<"ID leaked ", "through function return", ".">>
MsgVec == <<"ID is leaked ", "into a vector">>

\* expect_ok: a resolver's error becomes an invariant violation; the debug
\* assertion aborts first in a build with debug assertions.
expect_ok(found, debug_assertions) ==
    IF found THEN OkResult
    ELSE IF debug_assertions
         THEN PanicResult("Should have been verified to be safe by the Move bytecode verifier")
         ELSE InvariantViolation

\* ------------------------------------------------------- the binary view
SUI_FRAMEWORK_ADDRESS == "0x2"
OBJECT_MODULE_NAME == "object"

Addresses == <<SUI_FRAMEWORK_ADDRESS, "0x1">>
ModuleNames == <<OBJECT_MODULE_NAME, "transfer", "coin">>
FunctionNames == <<"delete", "delete_child_object", "share_object">>

\* module_handles: every address with every module name.
NumModuleHandles == Len(Addresses) * Len(ModuleNames)
ModuleHandles ==
    [m \in 0..(NumModuleHandles - 1) |->
        [address |-> Addresses[(m \div Len(ModuleNames)) + 1],
         name |-> ModuleNames[(m % Len(ModuleNames)) + 1]]]

\* Signatures are kept by their length, the only thing the verifier reads:
\* 0..MaxArgs parameters and 0..1 return values.
NumSignatures == (MaxArgs + 1) * 2

\* function_handles: every module handle with every function name and
\* every signature.
NumFunctionHandles == NumModuleHandles * Len(FunctionNames) * NumSignatures
FunctionHandles ==
    [h \in 0..(NumFunctionHandles - 1) |->
        LET s == h % NumSignatures
            n == (h \div NumSignatures) % Len(FunctionNames)
            m == h \div (NumSignatures * Len(FunctionNames))
        IN [module |-> m,
            name |-> FunctionNames[n + 1],
            parameters |-> s \div 2,
            return_ |-> s % 2]]

\* function_instantiations: one per function handle with one parameter.
GenericHandles == {h \in DOMAIN FunctionHandles : FunctionHandles[h].parameters = 1
                                                    /\ FunctionHandles[h].return_ = 0}
NumFunctionInstantiations == Cardinality(GenericHandles)
FunctionInstantiations ==
    [i \in 0..(NumFunctionInstantiations - 1) |->
        [handle |-> CHOOSE h \in GenericHandles :
                        Cardinality({g \in GenericHandles : g < h}) = i]]

\* struct_handles: 0 has key, 1 has not.
StructHandles ==
    [s \in 0..1 |-> [abilities |-> IF s = 0 THEN {"key", "store"} ELSE {"store", "drop"}]]

\* struct_defs: both handles, Native and Declared with 0..MaxFields fields.
NumStructDefs == 2 * (MaxFields + 2)
StructDefs ==
    [d \in 0..(NumStructDefs - 1) |->
        LET f == d \div 2
        IN [struct_handle |-> d % 2,
            field_information |->
                IF f = 0 THEN [tag |-> "Native", fields |-> 0]
                ELSE [tag |-> "Declared", fields |-> f - 1]]]

\* struct_def_instantiations: one per struct definition.
StructInstantiations == [i \in 0..(NumStructDefs - 1) |-> [def |-> i]]

has_key(handle) == "key" \in handle.abilities

\* A function view: the lengths of the parameter and return signatures.
FunctionViews == [parameters : 0..MaxParams, return_ : 0..MaxReturns]

\* ------------------------------------------------------- bytecodes
UnaryOps == {"FreezeRef", "ReadRef", "CastU8", "CastU16", "CastU32", "CastU64",
             "CastU128", "CastU256", "Not", "VecLen", "VecPopBack"}
NoOps == {"Branch", "Nop"}
BinaryOps == {"Eq", "Neq", "Add", "Sub", "Mul", "Mod", "Div", "BitOr", "BitAnd",
              "Xor", "Shl", "Shr", "Or", "And", "Lt", "Gt", "Le", "Ge",
              "VecImmBorrow", "VecMutBorrow"}
BorrowLocOps == {"MutBorrowLoc", "ImmBorrowLoc"}
BorrowFieldOps == {"MutBorrowField", "MutBorrowFieldGeneric", "ImmBorrowField",
                   "ImmBorrowFieldGeneric"}
GlobalStorageOps == {"MoveFrom", "MoveFromGeneric", "MoveTo", "MoveToGeneric",
                     "ImmBorrowGlobal", "MutBorrowGlobal", "ImmBorrowGlobalGeneric",
                     "MutBorrowGlobalGeneric", "Exists", "ExistsGeneric"}
DropOps == {"BrTrue", "BrFalse", "Abort"}
LdOps == {"LdTrue", "LdFalse", "LdU8", "LdU16", "LdU32", "LdU64", "LdU128",
          "LdU256", "LdConst"}

Instr(op, arg) == [op |-> op, arg |-> arg]

\* Every bytecode of the file format over the tables above; an index one
\* past a struct table is one the resolver answers with an error.
Bytecodes ==
    {Instr(o, 0) : o \in {"Pop", "WriteRef", "Ret", "VecPushBack", "VecSwap"}
                          \cup UnaryOps \cup NoOps \cup BinaryOps \cup BorrowFieldOps
                          \cup GlobalStorageOps \cup DropOps \cup LdOps}
    \cup {Instr(o, l) : o \in {"CopyLoc", "MoveLoc", "StLoc"} \cup BorrowLocOps,
                        l \in 0..(MaxLocals - 1)}
    \cup {Instr("Call", h) : h \in DOMAIN FunctionHandles}
    \cup {Instr("CallGeneric", i) : i \in DOMAIN FunctionInstantiations}
    \cup {Instr(o, d) : o \in {"Pack", "Unpack", "PackGeneric", "UnpackGeneric"},
                        d \in 0..NumStructDefs}
    \cup {Instr(o, n) : o \in {"VecPack", "VecUnpack"}, n \in 0..MaxVec}

\* ------------------------------------------------------- the stack
Top(stack) == stack[Len(stack)]
Rest(stack) == SubSeq(stack, 1, Len(stack) - 1)
Push(stack, value) == Append(stack, value)

RECURSIVE PushN(_, _, _)
PushN(stack, n, value) ==
    IF n <= 0 THEN stack ELSE PushN(Push(stack, value), n - 1, value)

\* What a transfer leaves: the stack, the locals and how the call ended.
Effect(stack, locals, res) == [stack |-> stack, locals |-> locals, res |-> res]

\* n times: pop, unwrap, and fail with err when the slot is ID and checked.
RECURSIVE PopChecked(_, _, _, _)
PopChecked(stack, n, checked, err) ==
    IF n = 0 THEN [stack |-> stack, res |-> OkResult]
    ELSE IF stack = <<>> THEN [stack |-> stack, res |-> UnwrapNone]
    ELSE IF Top(stack) = ID /\ checked THEN [stack |-> Rest(stack), res |-> err]
    ELSE PopChecked(Rest(stack), n - 1, checked, err)

\* ------------------------------------------------------- calls and structs
\* An allowlist that forgets the framework address.
is_call_safe_to_leak_any_address(function_handle) ==
    LET m == ModuleHandles[function_handle.module]
    IN (m.name = OBJECT_MODULE_NAME /\ function_handle.name = "delete")
       \/ (m.name = "transfer" /\ function_handle.name = "delete_child_object")

\* An allowlist that asks for the framework address of object::delete only.
is_call_safe_to_leak_transfer_by_name(function_handle) ==
    LET m == ModuleHandles[function_handle.module]
    IN (m.address = SUI_FRAMEWORK_ADDRESS /\ m.name = OBJECT_MODULE_NAME
           /\ function_handle.name = "delete")
       \/ (m.name = "transfer" /\ function_handle.name = "delete_child_object")

is_call_safe_to_leak(function_handle) ==
    LET m == ModuleHandles[function_handle.module]
        is_framework == m.address = SUI_FRAMEWORK_ADDRESS
    IN IF ~is_framework THEN FALSE
       ELSE (m.name = OBJECT_MODULE_NAME /\ function_handle.name = "delete")
            \/ (m.name = "transfer" /\ function_handle.name = "delete_child_object")

\* A call that checks no argument.
call_unchecked(stack, locals, function_handle) ==
    LET p == PopChecked(stack, function_handle.parameters, FALSE,
                        move_verification_error(MsgCall))
    IN IF p.res # OkResult THEN Effect(p.stack, locals, p.res)
       ELSE Effect(PushN(p.stack, function_handle.return_, NonID), locals, OkResult)

call(stack, locals, function_handle) ==
    LET guaranteed_safe == is_call_safe_to_leak(function_handle)
        p == PopChecked(stack, function_handle.parameters, ~guaranteed_safe,
                        move_verification_error(MsgCall))
    IN IF p.res # OkResult THEN Effect(p.stack, locals, p.res)
       ELSE Effect(PushN(p.stack, function_handle.return_, NonID), locals, OkResult)

num_fields(struct_def) ==
    IF struct_def.field_information.tag = "Native" THEN 0
    ELSE struct_def.field_information.fields

pack(stack, locals, struct_def) ==
    LET p == PopChecked(stack, num_fields(struct_def), TRUE,
                        move_verification_error(MsgPack))
    IN IF p.res # OkResult THEN Effect(p.stack, locals, p.res)
       ELSE Effect(Push(p.stack, NonID), locals, OkResult)

\* An unpack that tags the first field of every struct.
unpack_any_struct(stack, locals, struct_def) ==
    IF stack = <<>> THEN Effect(stack, locals, UnwrapNone)
    ELSE Effect(PushN(Push(Rest(stack), ID), num_fields(struct_def) - 1, NonID),
                locals, OkResult)

unpack(stack, locals, struct_def) ==
    IF stack = <<>> THEN Effect(stack, locals, UnwrapNone)
    ELSE LET handle == StructHandles[struct_def.struct_handle]
             first == IF has_key(handle) THEN ID ELSE NonID
         IN Effect(PushN(Push(Rest(stack), first), num_fields(struct_def) - 1, NonID),
                   locals, OkResult)

\* Pops n slots as a sink does: an ID among them is a leak.
PopPush_sink(stack, locals, n, m) ==
    LET p == PopChecked(stack, n, TRUE, move_verification_error(MsgVec))
    IN IF p.res # OkResult THEN Effect(p.stack, locals, p.res)
       ELSE Effect(PushN(p.stack, m, NonID), locals, OkResult)

\* Pops n slots and pushes m times the value that was on top.
PopPush_top(stack, locals, n, m) ==
    LET p == PopChecked(stack, n, FALSE, OkResult)
    IN IF p.res # OkResult THEN Effect(p.stack, locals, p.res)
       ELSE Effect(PushN(p.stack, m, IF stack = <<>> THEN NonID ELSE Top(stack)),
                   locals, OkResult)

\* pop n slots without looking at them, then push m NonID
PopPush(stack, locals, n, m) ==
    LET p == PopChecked(stack, n, FALSE, OkResult)
    IN IF p.res # OkResult THEN Effect(p.stack, locals, p.res)
       ELSE Effect(PushN(p.stack, m, NonID), locals, OkResult)

\* A removal that removes nothing.
Without_nothing(locals, l) == locals

\* The locals map without entry l.
Without(locals, l) == [k \in (DOMAIN locals) \ {l} |-> locals[k]]

\* The locals map with entry l set to value.
With(locals, l, value) ==
    [k \in (DOMAIN locals) \cup {l} |-> IF k = l THEN value ELSE locals[k]]

\* ------------------------------------------------------- the transfer
WriteRefEffect(stack, locals) ==
    \* Top of stack is the reference, and the second element is the value.
    IF stack = <<>> THEN Effect(stack, locals, UnwrapNone)
    ELSE LET p == PopChecked(Rest(stack), 1, TRUE, move_verification_error(MsgWriteRef))
         IN Effect(p.stack, locals, p.res)

VecPushBackEffect(stack, locals) ==
    LET p == PopChecked(stack, 1, TRUE, move_verification_error(MsgVec))
    IN IF p.res # OkResult THEN Effect(p.stack, locals, p.res)
       ELSE PopPush(p.stack, locals, 1, 0)

VecPackEffect(stack, locals, num) ==
    LET p == PopChecked(stack, num, TRUE, move_verification_error(MsgVec))
    IN IF p.res # OkResult THEN Effect(p.stack, locals, p.res)
       ELSE Effect(Push(p.stack, NonID), locals, OkResult)

RetEffect(stack, locals, function_view) ==
    LET p == PopChecked(stack, function_view.return_, TRUE,
                        move_verification_error(MsgRet))
    IN Effect(p.stack, locals, p.res)

\* The struct definition an index of Pack/Unpack (generic or not) resolves
\* to, through expect_ok; res is OkResult when it resolves.
ResolveStruct(bytecode, debug_assertions) ==
    IF bytecode.op \in {"PackGeneric", "UnpackGeneric"}
    THEN IF bytecode.arg \notin DOMAIN StructInstantiations
         THEN [res |-> expect_ok(FALSE, debug_assertions), def |-> 0]
         ELSE LET d == StructInstantiations[bytecode.arg].def
              IN [res |-> expect_ok(d \in DOMAIN StructDefs, debug_assertions), def |-> d]
    ELSE [res |-> expect_ok(bytecode.arg \in DOMAIN StructDefs, debug_assertions),
          def |-> bytecode.arg]

\* The function handle a Call or CallGeneric names.
ResolveCall(bytecode) ==
    IF bytecode.op = "CallGeneric"
    THEN FunctionHandles[FunctionInstantiations[bytecode.arg].handle]
    ELSE FunctionHandles[bytecode.arg]

execute_inner(stack, locals, bytecode, function_view, debug_assertions) ==
    LET op == bytecode.op
        arg == bytecode.arg
    IN CASE op = "Pop" -> PopPush(stack, locals, 1, 0)
         [] op = "CopyLoc" ->
              IF arg \in DOMAIN locals
              THEN Effect(Push(stack, locals[arg]), locals, OkResult)
              ELSE Effect(stack, locals, UnwrapNone)
         [] op = "MoveLoc" ->
              IF arg \in DOMAIN locals
              THEN Effect(Push(stack, locals[arg]), Without(locals, arg), OkResult)
              ELSE Effect(stack, locals, UnwrapNone)
         [] op = "StLoc" ->
              IF stack = <<>> THEN Effect(stack, locals, UnwrapNone)
              ELSE Effect(Rest(stack), With(locals, arg, Top(stack)), OkResult)
         [] op \in UnaryOps -> PopPush(stack, locals, 1, 1)
         [] op \in NoOps -> Effect(stack, locals, OkResult)
         [] op \in BinaryOps -> PopPush(stack, locals, 2, 1)
         [] op = "WriteRef" -> WriteRefEffect(stack, locals)
         [] op \in BorrowLocOps -> Effect(Push(stack, NonID), locals, OkResult)
         [] op \in BorrowFieldOps -> PopPush(stack, locals, 1, 1)
         [] op \in GlobalStorageOps ->
              Effect(stack, locals,
                     PanicResult("Should have been checked by global_storage_access_verifier."))
         [] op \in {"Call", "CallGeneric"} -> call(stack, locals, ResolveCall(bytecode))
         [] op = "Ret" -> RetEffect(stack, locals, function_view)
         [] op \in DropOps -> PopPush(stack, locals, 1, 0)
         [] op \in LdOps -> Effect(Push(stack, NonID), locals, OkResult)
         [] op \in {"Pack", "PackGeneric"} ->
              LET r == ResolveStruct(bytecode, debug_assertions)
              IN IF r.res # OkResult THEN Effect(stack, locals, r.res)
                 ELSE pack(stack, locals, StructDefs[r.def])
         [] op \in {"Unpack", "UnpackGeneric"} ->
              LET r == ResolveStruct(bytecode, debug_assertions)
              IN IF r.res # OkResult THEN Effect(stack, locals, r.res)
                 ELSE unpack(stack, locals, StructDefs[r.def])
         [] op = "VecPack" -> VecPackEffect(stack, locals, arg)
         [] op = "VecPushBack" -> VecPushBackEffect(stack, locals)
         [] op = "VecUnpack" -> PopPush(stack, locals, 1, arg)
         [] op = "VecSwap" -> PopPush(stack, locals, 3, 0)

\* An execute without the check at the end of the block.
execute_no_check(stack, locals, bytecode, is_last, function_view, debug_assertions) ==
    execute_inner(stack, locals, bytecode, function_view, debug_assertions)

\* TransferFunctions::execute: the transfer, then the check that the stack
\* is empty after the last opcode of the block.
execute(stack, locals, bytecode, is_last, function_view, debug_assertions) ==
    LET e == execute_inner(stack, locals, bytecode, function_view, debug_assertions)
    IN IF e.res # OkResult THEN e
       ELSE IF is_last /\ e.stack # <<>>
            THEN Effect(e.stack, e.locals,
                        IF debug_assertions
                        THEN PanicResult("Invalid stack transitions. Non-zero stack size at the end of the block")
                        ELSE InvariantViolation)
            ELSE e

\* ------------------------------------------------------- abstract states
EmptyLocals == [l \in {} |-> NonID]

\* An initial state with an entry for the local after the parameters as
\* well.
AbstractState_new_one_more(function_view) ==
    [l \in 0..function_view.parameters |-> NonID]

\* AbstractState::new: the parameters are NonID.
AbstractState_new(function_view) ==
    [l \in 0..(function_view.parameters - 1) |-> NonID]

Old(locals, l) == IF l \in DOMAIN locals THEN locals[l] ELSE NonID

\* A join that overwrites the locals of self with those of state.
AbstractState_join_overwrite(self, state) ==
    [locals |-> [l \in (DOMAIN self) \cup (DOMAIN state) |->
                    IF l \in DOMAIN state THEN state[l] ELSE self[l]],
     changed |-> \E l \in DOMAIN state : state[l] # Old(self, l)]

\* AbstractDomain::join of self with state: the locals of self afterwards
\* and whether the join reports Changed.
AbstractState_join(self, state) ==
    [locals |-> [l \in (DOMAIN self) \cup (DOMAIN state) |->
                    IF l \in DOMAIN state
                    THEN AbstractValue_join(state[l], Old(self, l))
                    ELSE self[l]],
     changed |-> \E l \in DOMAIN state : state[l] # Old(self, l)]

\* ------------------------------------------------------- the state
VARIABLES
    index,          \* verify_id_leak: the function definitions consumed so far
    pc,             \* "for" | "execute" | "propagate" | "analyzed" | "returned" | "op"
    function_view,  \* the function under analysis
    code,           \* its basic blocks, as far as the analysis has read them
    inv_map,        \* analyze_function: block id -> entry state
    block_id,       \* the block under analysis
    offset,         \* the opcodes of the block executed so far
    state,          \* execute_block: state_acc.locals
    stack,          \* IDLeakAnalysis.stack
    result,         \* what verify_module returned ("None": not yet)
    executed,       \* the last call of execute: its inputs and its result
    visits,         \* block id -> the times execute_block started on it
    key_unpacked,   \* an Unpack of a key struct was read in this module
    first_error,    \* the first error an analysis ended with, and its function
    leaked,         \* an analysis returned Ok for a function with a leaking path
    module,         \* PermSpec: the function definitions of the module
    order,          \* PermSpec: a permutation of the function definitions
    run,            \* PermSpec: 1 the module, 2 the permuted module, 3 both done
    outcomes,       \* PermSpec: what the runs done so far yielded
    analyzed,       \* PermSpec: per run, what became of each function definition
    joined          \* JoinSpec: the last join, its operands and what it gave

perm == <<module, order, run, outcomes, analyzed>>

vars == <<index, pc, function_view, code, inv_map, block_id, offset, state, stack,
          result, executed, visits, key_unpacked, first_error, leaked, perm,
                   joined>>

NoResult == [kind |-> "None", status |-> "", message |-> <<>>]
NoView == [parameters |-> 0, return_ |-> 0]
NoCode == [b \in {} |-> [instrs |-> <<>>, closed |-> FALSE]]
NoMap == [b \in {} |-> EmptyLocals]
NoVisits == [b \in {} |-> 0]
NoJoin == [kind |-> "None"]
NoExecuted == [bytecode |-> Instr("None", 0), is_last |-> FALSE, stack |-> <<>>,
               locals |-> EmptyLocals, inner |-> NoResult, res |-> NoResult]

\* ------------------------------------------------------- the CFG
\* Blocks are numbered in the order of the traversal; a branch names its
\* target block.
IsKeyUnpack(bytecode) ==
    /\ bytecode.op \in {"Unpack", "UnpackGeneric"}
    /\ bytecode.arg \in DOMAIN StructDefs
    /\ has_key(StructHandles[StructDefs[bytecode.arg].struct_handle])

successors(b, last) ==
    CASE last.op = "Branch" -> {last.arg}
      [] last.op \in {"BrTrue", "BrFalse"} -> {last.arg, b + 1}
      [] last.op \in {"Ret", "Abort"} -> {}
      [] OTHER -> {b + 1}

is_back_edge(cur, target) == target <= cur

LastInstr(b) == code[b].instrs[Len(code[b].instrs)]

\* The key of the struct definitions the functions of the model unpack
\* and pack, and the handles they call.
KeyStruct == CHOOSE d \in DOMAIN StructDefs :
    /\ has_key(StructHandles[StructDefs[d].struct_handle])
    /\ StructDefs[d].field_information = [tag |-> "Declared", fields |-> 1]
PlainStruct == CHOOSE d \in DOMAIN StructDefs :
    /\ ~has_key(StructHandles[StructDefs[d].struct_handle])
    /\ StructDefs[d].field_information = [tag |-> "Declared", fields |-> 1]
DeleteHandle == CHOOSE h \in DOMAIN FunctionHandles :
    /\ is_call_safe_to_leak(FunctionHandles[h])
    /\ FunctionHandles[h].parameters = 1 /\ FunctionHandles[h].return_ = 0
OtherHandle == CHOOSE h \in DOMAIN FunctionHandles :
    /\ ~is_call_safe_to_leak(FunctionHandles[h])
    /\ FunctionHandles[h].parameters = 1 /\ FunctionHandles[h].return_ = 0

\* The opcodes the function bodies of the model are written in.
CodeAlphabet ==
    {Instr(o, 0) : o \in {"LdTrue", "Pop", "Ret", "WriteRef", "VecPushBack"}
                          \cup GlobalStorageOps}
    \cup {Instr(o, l) : o \in {"CopyLoc", "MoveLoc", "StLoc"}, l \in 0..(MaxCodeLocals - 1)}
    \cup {Instr("Unpack", KeyStruct), Instr("Unpack", PlainStruct),
          Instr("Pack", PlainStruct), Instr("VecPack", 1),
          Instr("Call", DeleteHandle), Instr("Call", OtherHandle)}
    \cup {Instr(o, t) : o \in {"Branch", "BrTrue"}, t \in 0..(MaxBlocks - 1)}

BranchOps == {"Branch", "BrTrue", "BrFalse"}

Range(f) == {f[x] : x \in DOMAIN f}

\* The opcodes of a body.
CodeOf(body) == UNION {Range(body[b].instrs) : b \in DOMAIN body}

\* The opcodes of the function under analysis read so far.
CodeRead == CodeOf(code)

\* The number of opcodes of the current function read so far.
CodeSize == LET RECURSIVE Sum(_)
                Sum(B) == IF B = {} THEN 0
                          ELSE LET b == CHOOSE x \in B : TRUE
                               IN Len(code[b].instrs) + Sum(B \ {b})
            IN Sum(DOMAIN code)

\* The opcodes the function under analysis has at most: the first
\* definition of the module is the long one.
CodeLimit == IF index = 0 THEN MaxCode ELSE MaxLaterCode

\* bytecode may stand at the place the analysis reads next, as the last
\* opcode of its block or not: a branch ends its block and goes forward or
\* back to a block that was entered; the code ends in no fall-through.
WellPlaced(bytecode, is_last) ==
    /\ bytecode.op \in BranchOps \cup {"Ret", "Abort"} => is_last
    /\ bytecode.op \in BranchOps =>
          \/ bytecode.arg > block_id
          \/ bytecode.arg \in DOMAIN inv_map
    /\ is_last => successors(block_id, bytecode) \subseteq 0..(MaxBlocks - 1)
    /\ offset + 1 <= MaxBlockLen /\ CodeSize + 1 <= CodeLimit
    /\ ~is_last => offset + 2 <= MaxBlockLen /\ CodeSize + 2 <= CodeLimit

\* ------------------------------------------------------- paths
\* The blocks a path of the model goes through at most.
MaxPath == 6

IsLeak(res) == res.kind = "Err" /\ res.status = "UNKNOWN_VERIFICATION_ERROR"

\* The opcodes of a block from the i-th on, one after the other, on one
\* path: no join, and the stack goes on from block to block.
RECURSIVE AlongBlock(_, _, _, _)
AlongBlock(instrs, i, stack0, locals0) ==
    IF i > Len(instrs) THEN Effect(stack0, locals0, OkResult)
    ELSE LET e == execute_inner(stack0, locals0, instrs[i], function_view, FALSE)
         IN IF e.res # OkResult THEN e
            ELSE AlongBlock(instrs, i + 1, e.stack, e.locals)

\* Some path of at most fuel more blocks, from the entry of block b with
\* this stack and these locals, takes an ID to a sink.
RECURSIVE PathLeaks(_, _, _, _)
PathLeaks(b, stack0, locals0, fuel) ==
    LET e == AlongBlock(code[b].instrs, 1, stack0, locals0)
    IN IF IsLeak(e.res) THEN TRUE
       ELSE IF e.res # OkResult \/ fuel = 0 THEN FALSE
       ELSE \E s \in successors(b, LastInstr(b)) :
               s \in DOMAIN code /\ PathLeaks(s, e.stack, e.locals, fuel - 1)

SomePathLeaks ==
    0 \in DOMAIN code /\ PathLeaks(0, <<>>, AbstractState_new(function_view), MaxPath)

\* ------------------------------------------------------- verify_id_leak
\* map_err: the error of analyze_function, finished with the location of the
\* module and converted; an abort of the analysis aborts verify_module.
map_err(res) ==
    [kind |-> res.kind, status |-> res.status, message |-> res.message,
     location |-> IF res.kind = "Err" THEN "Module" ELSE ""]

Running == map_err(NoResult)

\* The ? after map_err with every error ignored.
Try_ignore(res) == [returns |-> FALSE, value |-> Running]

\* The ? after map_err: an error returns from verify_id_leak, Ok goes on.
Try(res) ==
    IF res = OkResult THEN [returns |-> FALSE, value |-> Running]
    ELSE [returns |-> TRUE, value |-> map_err(res)]

NoError == [index |-> 0 - 1, error |-> NoResult]

Init ==
    /\ index = 0
    /\ pc = "for"
    /\ function_view = NoView
    /\ code = NoCode
    /\ inv_map = NoMap
    /\ block_id = 0
    /\ offset = 0
    /\ state = EmptyLocals
    /\ stack = <<>>
    /\ result = Running
    /\ executed = NoExecuted
    /\ visits = NoVisits
    /\ key_unpacked = FALSE
    /\ first_error = NoError
    /\ leaked = FALSE
    /\ module = <<>> /\ order = <<>> /\ run = 0 /\ outcomes = <<>>
    /\ analyzed = <<>>
    /\ joined = NoJoin

\* The per-function data is released.
Release ==
    /\ function_view' = NoView
    /\ code' = NoCode
    /\ inv_map' = NoMap
    /\ block_id' = 0
    /\ offset' = 0
    /\ state' = EmptyLocals
    /\ stack' = <<>>
    /\ executed' = NoExecuted
    /\ visits' = NoVisits

\* The loop is over: every function definition was consumed.
ReturnOk ==
    /\ pc = "for"
    /\ UNCHANGED <<perm, joined>>
    /\ result' = map_err(OkResult)
    /\ pc' = "returned"
    /\ UNCHANGED <<index, function_view, code, inv_map, block_id, offset, state, stack,
                   executed, visits, key_unpacked, first_error, leaked>>

\* The next function definition has no code.
SkipNative ==
    /\ pc = "for"
    /\ UNCHANGED <<perm, joined>>
    /\ index < MaxFuncs
    /\ index' = index + 1
    /\ UNCHANGED <<pc, function_view, code, inv_map, block_id, offset, state, stack,
                   result, executed, visits, key_unpacked, first_error, leaked>>

\* The next function definition has code: the initial state, a new
\* IDLeakAnalysis, and analyze_function enters the entry block.
StartFunction ==
    /\ pc = "for"
    /\ UNCHANGED <<perm, joined>>
    /\ index < MaxFuncs
    /\ \E fv \in FunctionViews :
          /\ function_view' = fv
          /\ inv_map' = (0 :> AbstractState_new(fv))
          /\ state' = AbstractState_new(fv)
    /\ stack' = <<>>
    /\ code' = (0 :> [instrs |-> <<>>, closed |-> FALSE])
    /\ block_id' = 0
    /\ offset' = 0
    /\ visits' = (0 :> 1)
    /\ pc' = "execute"
    /\ UNCHANGED <<index, result, executed, key_unpacked, first_error, leaked>>

\* ------------------------------------------------------- analyze_function
\* One call of execute in execute_block, on bytecode.
Step(bytecode, is_last, debug_assertions) ==
    LET e == execute(stack, state, bytecode, is_last, function_view, debug_assertions)
        inner == execute_inner(stack, state, bytecode, function_view, debug_assertions)
        call_ == [bytecode |-> bytecode, is_last |-> is_last, stack |-> stack,
                  locals |-> state, inner |-> inner.res, res |-> e.res]
    IN IF e.res = OkResult
       THEN /\ stack' = e.stack
            /\ state' = e.locals
            /\ offset' = offset + 1
            /\ pc' = IF is_last THEN "propagate" ELSE "execute"
            /\ executed' = call_
            /\ UNCHANGED <<index, function_view, inv_map, block_id, result, visits,
                           first_error>>
       ELSE /\ first_error' = IF first_error = NoError
                               THEN [index |-> index, error |-> e.res]
                               ELSE first_error
            /\ IF Try(e.res).returns
               THEN /\ result' = Try(e.res).value
                    /\ pc' = "returned"
                    /\ UNCHANGED index
               ELSE /\ pc' = "for"
                    /\ index' = index + 1
                    /\ UNCHANGED result
            /\ function_view' = NoView
            /\ inv_map' = NoMap
            /\ visits' = NoVisits
            /\ stack' = <<>>
            /\ state' = EmptyLocals
            /\ executed' = call_
            /\ UNCHANGED <<block_id, offset>>

\* The analysis reads an opcode of the function for the first time.
ExecuteNew ==
    /\ pc = "execute"
    /\ UNCHANGED <<perm, joined>>
    /\ ~code[block_id].closed
    /\ \E bytecode \in CodeAlphabet, is_last \in BOOLEAN, debug_assertions \in BOOLEAN :
          /\ WellPlaced(bytecode, is_last)
          /\ Step(bytecode, is_last, debug_assertions)
          /\ code' = IF pc' # "execute" /\ pc' # "propagate" THEN NoCode
                     ELSE [code EXCEPT ![block_id] =
                              [instrs |-> Append(@.instrs, bytecode), closed |-> is_last]]
          /\ key_unpacked' = (key_unpacked \/ IsKeyUnpack(bytecode))
    /\ UNCHANGED leaked

\* The analysis executes an opcode of a block it analyzes again.
ExecuteAgain ==
    /\ pc = "execute"
    /\ UNCHANGED <<perm, joined>>
    /\ code[block_id].closed
    /\ \E debug_assertions \in BOOLEAN :
          Step(code[block_id].instrs[offset + 1],
               offset + 1 = Len(code[block_id].instrs), debug_assertions)
    /\ code' = IF pc' # "execute" /\ pc' # "propagate" THEN NoCode ELSE code
    /\ UNCHANGED <<key_unpacked, leaked>>

\* The successors of the block under analysis, whose last opcode was read.
Successors == successors(block_id, LastInstr(block_id))

\* The join of the post state into the entry state of successor s.
Joined(s) == AbstractState_join(inv_map[s], state)

\* inv_map after the post state went to every successor.
JoinedMap ==
    [s \in (DOMAIN inv_map) \cup Successors |->
        IF s \in Successors
        THEN IF s \in DOMAIN inv_map THEN Joined(s).locals ELSE state
        ELSE inv_map[s]]

\* The successors over a back edge whose join returned Changed.
ChangedBackEdges ==
    {s \in Successors \cap DOMAIN inv_map :
        Joined(s).changed /\ is_back_edge(block_id, s)}

\* The analyses of block b started so far.
Seen(b) == IF b \in DOMAIN visits THEN visits[b] ELSE 0

\* The end of execute_block: the post state is joined into the successors
\* and the next block is chosen.
Propagate ==
    /\ pc = "propagate"
    /\ UNCHANGED <<perm, joined>>
    /\ LET new_map == JoinedMap
           back == ChangedBackEdges
           later == {b \in DOMAIN new_map : b > block_id}
           seen(b) == Seen(b)
           next_block == IF back # {} THEN back
                         ELSE IF later # {} THEN {CHOOSE b \in later : \A c \in later : b <= c}
                         ELSE {}
       IN /\ inv_map' = new_map
          /\ IF next_block = {}
             THEN /\ pc' = "analyzed"
                  /\ UNCHANGED <<block_id, offset, state, visits, code>>
             ELSE \E b \in next_block :
                  /\ seen(b) < MaxVisits
                  /\ block_id' = b
                  /\ offset' = 0
                  /\ state' = new_map[b]
                  /\ visits' = [v \in (DOMAIN visits) \cup {b} |->
                                   IF v = b THEN seen(b) + 1 ELSE visits[v]]
                  /\ code' = IF b \in DOMAIN code THEN code
                             ELSE [c \in (DOMAIN code) \cup {b} |->
                                      IF c = b THEN [instrs |-> <<>>, closed |-> FALSE]
                                      ELSE code[c]]
                  /\ pc' = "execute"
    /\ UNCHANGED <<index, function_view, stack, result, executed, key_unpacked,
                   first_error, leaked>>

\* analyze_function returned Ok: the loop goes on to the next definition.
FunctionDone ==
    /\ pc = "analyzed"
    /\ UNCHANGED <<perm, joined>>
    /\ index' = index + 1
    /\ pc' = "for"
    /\ leaked' = (leaked \/ SomePathLeaks)
    /\ Release
    /\ UNCHANGED <<result, key_unpacked, first_error>>

Next ==
    \/ ReturnOk
    \/ SkipNative
    \/ StartFunction
    \/ ExecuteNew
    \/ ExecuteAgain
    \/ Propagate
    \/ FunctionDone

Spec == Init /\ [][Next]_vars

\* ------------------------------------------------------- one transfer
\* A second specification: execute, once, on any bytecode of the file
\* format, from any operand stack and any locals map.
Stacks == UNION {[1..n -> AbstractValue] : n \in 0..MaxStack}

LocalsMaps == UNION {[D -> AbstractValue] : D \in SUBSET (0..(MaxLocals - 1))}

OpInit ==
    /\ index = 0
    /\ pc = "op"
    /\ function_view \in [parameters : {0}, return_ : 0..MaxArgs]
    /\ code = NoCode
    /\ inv_map = NoMap
    /\ block_id = 0
    /\ offset = 0
    /\ state \in LocalsMaps
    /\ stack \in Stacks
    /\ result = Running
    /\ executed = NoExecuted
    /\ visits = NoVisits
    /\ key_unpacked = FALSE
    /\ first_error = NoError
    /\ leaked = FALSE
    /\ module = <<>> /\ order = <<>> /\ run = 0 /\ outcomes = <<>>
    /\ analyzed = <<>>
    /\ joined = NoJoin

OpExecute ==
    /\ pc = "op"
    /\ UNCHANGED <<perm, joined>>
    /\ \E bytecode \in Bytecodes, is_last \in BOOLEAN, debug_assertions \in BOOLEAN :
          LET e == execute(stack, state, bytecode, is_last, function_view,
                           debug_assertions)
              inner == execute_inner(stack, state, bytecode, function_view,
                                     debug_assertions)
          IN /\ executed' = [bytecode |-> bytecode, is_last |-> is_last,
                             stack |-> stack, locals |-> state,
                             inner |-> inner.res, res |-> e.res]
             /\ stack' = e.stack
             /\ state' = e.locals
    /\ pc' = "op_done"
    /\ UNCHANGED <<index, function_view, code, inv_map, block_id, offset, result,
                   visits, key_unpacked, first_error, leaked>>

OpNext == OpExecute

OpSpec == OpInit /\ [][OpNext]_vars

\* ------------------------------------------------------- two orders
\* A third specification: verify_module on a module of given function
\* definitions, and then on the same definitions in another order.
MaxModule == 3

Closed(instrs) == [instrs |-> instrs, closed |-> TRUE]

\* A function definition without code.
NativeDef == [has_code |-> FALSE, view |-> NoView, code |-> NoCode]

\* fun(x): x
ReturnsDef ==
    [has_code |-> TRUE, view |-> [parameters |-> 1, return_ |-> 1],
     code |-> (0 :> Closed(<<Instr("MoveLoc", 0), Instr("Ret", 0)>>))]

\* The id of an unpacked object is returned.
LeaksDef ==
    [has_code |-> TRUE, view |-> [parameters |-> 0, return_ |-> 1],
     code |-> (0 :> Closed(<<Instr("LdTrue", 0), Instr("Unpack", KeyStruct),
                             Instr("Ret", 0)>>))]

\* A loop that stores a plain value in a local that holds a plain value.
LoopsDef ==
    [has_code |-> TRUE, view |-> NoView,
     code |-> (0 :> Closed(<<Instr("LdTrue", 0), Instr("StLoc", 0)>>)
            @@ 1 :> Closed(<<Instr("LdTrue", 0), Instr("StLoc", 0),
                             Instr("Branch", 1)>>))]

\* A loop that stores a plain value in a local that holds an id at the
\* loop head.
LoopsOverIDDef ==
    [has_code |-> TRUE, view |-> NoView,
     code |-> (0 :> Closed(<<Instr("LdTrue", 0), Instr("Unpack", KeyStruct),
                             Instr("StLoc", 0)>>)
            @@ 1 :> Closed(<<Instr("LdTrue", 0), Instr("StLoc", 0),
                             Instr("Branch", 1)>>))]

FunctionDefs == {NativeDef, ReturnsDef, LeaksDef, LoopsDef, LoopsOverIDDef}

PermInit ==
    /\ index = 0
    /\ pc = "for"
    /\ function_view = NoView
    /\ code = NoCode
    /\ inv_map = NoMap
    /\ block_id = 0
    /\ offset = 0
    /\ state = EmptyLocals
    /\ stack = <<>>
    /\ result = Running
    /\ executed = NoExecuted
    /\ visits = NoVisits
    /\ key_unpacked = FALSE
    /\ first_error = NoError
    /\ leaked = FALSE
    /\ module \in UNION {[1..n -> FunctionDefs] : n \in 1..MaxModule}
    /\ order \in Permutations(1..Len(module))
    /\ run = 1
    /\ outcomes = <<>>
    /\ analyzed = <<>>
    /\ joined = NoJoin

\* module.function_defs.iter(): the definition the loop is at.
func_def == module[IF run = 1 THEN index + 1 ELSE order[index + 1]]

\* The next function definition has no code.
PermSkipNative ==
    /\ pc = "for"
    /\ run \in {1, 2}
    /\ index < Len(module)
    /\ ~func_def.has_code
    /\ index' = index + 1
    /\ UNCHANGED <<pc, function_view, code, inv_map, block_id, offset, state, stack,
                   result, executed, visits, key_unpacked, first_error, leaked, perm,
                   joined>>

\* A start in which only the first function analyzed gets a new initial
\* state: a later one finds its parameters as the analyses before it
\* could have left them, holding an id.
PermStartFunction_shared ==
    /\ pc = "for"
    /\ run \in {1, 2}
    /\ index < Len(module)
    /\ func_def.has_code
    /\ function_view' = func_def.view
    /\ LET initial_state == [l \in DOMAIN AbstractState_new(func_def.view) |->
                                IF index = 0 THEN NonID ELSE ID]
       IN /\ inv_map' = (0 :> initial_state)
          /\ state' = initial_state
    /\ stack' = <<>>
    /\ code' = func_def.code
    /\ block_id' = 0
    /\ offset' = 0
    /\ visits' = (0 :> 1)
    /\ pc' = "execute"
    /\ key_unpacked' = (key_unpacked \/ \E i \in CodeOf(func_def.code) : IsKeyUnpack(i))
    /\ UNCHANGED <<index, result, executed, first_error, leaked, perm,
                   joined>>

\* The next function definition has code.
PermStartFunction ==
    /\ pc = "for"
    /\ run \in {1, 2}
    /\ index < Len(module)
    /\ func_def.has_code
    /\ function_view' = func_def.view
    /\ inv_map' = (0 :> AbstractState_new(func_def.view))
    /\ state' = AbstractState_new(func_def.view)
    /\ stack' = <<>>
    /\ code' = func_def.code
    /\ block_id' = 0
    /\ offset' = 0
    /\ visits' = (0 :> 1)
    /\ pc' = "execute"
    /\ key_unpacked' = (key_unpacked \/ \E i \in CodeOf(func_def.code) : IsKeyUnpack(i))
    /\ UNCHANGED <<index, result, executed, first_error, leaked, perm,
                   joined>>

\* The loop is over.
PermReturnOk ==
    /\ pc = "for"
    /\ run \in {1, 2}
    /\ index = Len(module)
    /\ result' = map_err(OkResult)
    /\ pc' = "returned"
    /\ UNCHANGED <<index, function_view, code, inv_map, block_id, offset, state, stack,
                   executed, visits, key_unpacked, first_error, leaked, perm,
                   joined>>

\* What a run yielded: Ok, an error, or nothing.
Outcome(res) == IF res.kind = "Ok" THEN "Ok" ELSE "error"

\* The place in module of the definition the loop of the run under way
\* reaches at its step i (from 0).
Place(i) == IF run = 1 THEN i + 1 ELSE order[i + 1]

NotAnalyzed == map_err([kind |-> "NotAnalyzed", status |-> "", message |-> <<>>])

NoOutcome == map_err([kind |-> "Diverges", status |-> "", message |-> <<>>])

\* What the run that is over made of the definition at place p of the
\* module: the definitions before the one the loop stopped at returned Ok
\* (or have no code and were skipped), the one it stopped at gave what
\* verify_id_leak returned, or nothing when its analysis goes on for ever,
\* and the definitions after it were never analyzed.
Analysis(p) ==
    LET i == CHOOSE j \in 0..(Len(module) - 1) : Place(j) = p
    IN IF ~module[p].has_code THEN NotAnalyzed
       ELSE IF i < index THEN map_err(OkResult)
       ELSE IF i > index THEN NotAnalyzed
       ELSE IF pc = "returned" THEN result
       ELSE NoOutcome

\* One run is over with what it yielded; the next call of verify_module
\* starts on the permuted module.
NextRun(yielded) ==
    /\ outcomes' = Append(outcomes, yielded)
    /\ analyzed' = Append(analyzed, [p \in 1..Len(module) |-> Analysis(p)])
    /\ run' = run + 1
    /\ pc' = IF run = 1 THEN "for" ELSE "compared"
    /\ index' = 0
    /\ result' = Running
    /\ first_error' = NoError
    /\ key_unpacked' = FALSE
    /\ leaked' = FALSE
    /\ Release
    /\ UNCHANGED <<module, order, joined>>

PermReturned ==
    /\ pc = "returned"
    /\ run \in {1, 2}
    /\ NextRun(Outcome(result))

\* The join over a back edge returned Changed and changed nothing, and
\* the loop head was analyzed MaxVisits times: the analysis goes on
\* like this for ever, and verify_module yields nothing.
PermDiverges ==
    /\ pc = "propagate"
    /\ run \in {1, 2}
    /\ ChangedBackEdges # {}
    /\ JoinedMap = inv_map
    /\ \A b \in ChangedBackEdges : Seen(b) >= MaxVisits
    /\ NextRun("none")

PermNext ==
    \/ PermSkipNative
    \/ PermStartFunction
    \/ PermReturnOk
    \/ ExecuteAgain
    \/ Propagate
    \/ FunctionDone
    \/ PermReturned
    \/ PermDiverges

PermSpec == PermInit /\ [][PermNext]_vars

\* ------------------------------------------------------- one join
\* A fourth specification: one join, of three abstract values or of an
\* entry state with a post state, from any operands.
JoinInit ==
    /\ index = 0
    /\ pc = "join"
    /\ function_view = NoView
    /\ code = NoCode
    /\ inv_map \in [{0} -> LocalsMaps]
    /\ block_id = 0
    /\ offset = 0
    /\ state \in LocalsMaps
    /\ stack \in [1..3 -> AbstractValue]
    /\ result = Running
    /\ executed = NoExecuted
    /\ visits = NoVisits
    /\ key_unpacked = FALSE
    /\ first_error = NoError
    /\ leaked = FALSE
    /\ module = <<>> /\ order = <<>> /\ run = 0 /\ outcomes = <<>>
    /\ analyzed = <<>>
    /\ joined = NoJoin

\* AbstractValue::join on the three values of the stack, in the orders
\* the laws of a join speak of.
JoinValues ==
    /\ pc = "join"
    /\ LET a == stack[1]
           b == stack[2]
           c == stack[3]
       IN joined' = [kind |-> "values", a |-> a, b |-> b, c |-> c,
                     aa |-> AbstractValue_join(a, a),
                     ab |-> AbstractValue_join(a, b),
                     ba |-> AbstractValue_join(b, a),
                     ab_c |-> AbstractValue_join(AbstractValue_join(a, b), c),
                     a_bc |-> AbstractValue_join(a, AbstractValue_join(b, c))]
    /\ pc' = "joined"
    /\ UNCHANGED <<index, function_view, code, inv_map, block_id, offset, state, stack,
                   result, executed, visits, key_unpacked, first_error, leaked, perm>>

\* old_pre.join(&post_state): the entry state of block 0 is joined with
\* the post state.
JoinStates ==
    /\ pc = "join"
    /\ LET j == AbstractState_join(inv_map[0], state)
       IN /\ joined' = [kind |-> "states", self |-> inv_map[0], state |-> state,
                        locals |-> j.locals, changed |-> j.changed]
          /\ inv_map' = (0 :> j.locals)
    /\ pc' = "joined"
    /\ UNCHANGED <<index, function_view, code, block_id, offset, state, stack,
                   result, executed, visits, key_unpacked, first_error, leaked, perm>>

JoinNext == JoinValues \/ JoinStates

JoinSpec == JoinInit /\ [][JoinNext]_vars

\* ------------------------------------------------------- what the claims read
\* A call of execute has been made (in either specification).
Executed == executed.bytecode.op # "None"

SinkOps == {"Ret", "WriteRef", "VecPushBack", "VecPack", "Pack", "PackGeneric",
            "Call", "CallGeneric"}

IsCall(bytecode) == bytecode.op \in {"Call", "CallGeneric"}

\* The callee is one of the two framework functions that may take an ID.
Allowlisted(bytecode) ==
    LET h == ResolveCall(bytecode)
        m == ModuleHandles[h.module]
    IN /\ m.address = SUI_FRAMEWORK_ADDRESS
       /\ <<m.name, h.name>> \in {<<"object", "delete">>,
                                  <<"transfer", "delete_child_object">>}

\* The values of the n slots on top of a stack (fewer when it is shorter).
TopSlots(s, n) == {s[i] : i \in {j \in 1..Len(s) : j > Len(s) - n}}

\* The number of slots a sink pops when nothing stops it; -1 for a Pack
\* whose index does not resolve.
Popped(bytecode, fv) ==
    CASE bytecode.op = "Ret" -> fv.return_
      [] bytecode.op \in {"WriteRef", "VecPushBack"} -> 2
      [] bytecode.op = "VecPack" -> bytecode.arg
      [] bytecode.op \in {"Pack", "PackGeneric"} ->
            LET r == ResolveStruct(bytecode, FALSE)
            IN IF r.res = OkResult THEN num_fields(StructDefs[r.def]) ELSE 0 - 1
      [] IsCall(bytecode) -> ResolveCall(bytecode).parameters
      [] OTHER -> 0

\* The values a sink takes as values: all it pops, but for WriteRef the
\* slot under the reference and for VecPushBack the slot over it.
ValueOperands(bytecode, s, fv) ==
    CASE bytecode.op = "WriteRef" -> IF Len(s) >= 2 THEN {s[Len(s) - 1]} ELSE {}
      [] bytecode.op = "VecPushBack" -> TopSlots(s, 1)
      [] OTHER -> TopSlots(s, Popped(bytecode, fv))

\* ------------------------------------------------------- C1
\* C1: a function with a path from its entry on which an ID goes from an
\* Unpack of a key struct, over the stack and the locals, to a sink never
\* passes its analysis, and verify_module never returns Ok for a module
\* with such a function.
C1_PathSoundness ==
    /\ pc = "analyzed" => ~SomePathLeaks
    /\ result.kind = "Ok" => ~leaked

\* The analysis stopped on a leak through Ret in a later block whose
\* first opcode took the ID from a local.
C1_Witness ==
    /\ IsLeak(result)
    /\ key_unpacked
    /\ block_id > 0 /\ offset = 1
    /\ executed.bytecode.op = "Ret"
    /\ executed.stack = <<ID>>

\* ------------------------------------------------------- C2
\* C2: the fixed point stops: no block of a function is analyzed more than
\* |locals| + 1 times.
C2_BoundedIterations ==
    \A b \in DOMAIN visits : visits[b] <= MaxLocals + 1

\* ------------------------------------------------------- C5

\* C5 as the spec states it: a module in which no Unpack of a key struct
\* was read is verified with Ok (whenever verify_module returns at all).
C5_AlwaysOk ==
    ~key_unpacked /\ pc = "returned" /\ result.kind # "Panic" => result.kind = "Ok"

\* C5: as long as no Unpack of a key struct was read, no ID is on the
\* operand stack, in the locals or in an entry state, no sink fires, and
\* verify_module returns Ok unless the analysis stops on the invariant
\* violation status or aborts.
C5_NoSourceNoID ==
    ~key_unpacked =>
        /\ ID \notin Range(stack) \cup Range(state)
        /\ \A b \in DOMAIN inv_map : ID \notin Range(inv_map[b])
        /\ ID \notin Range(executed.stack) \cup Range(executed.locals)
        /\ ~IsLeak(executed.inner) /\ ~IsLeak(executed.res)
        /\ first_error # NoError => ~IsLeak(first_error.error)
        /\ pc = "returned" =>
              \/ result.kind \in {"Ok", "Panic"}
              \/ result.kind = "Err" /\ result.status = "UNKNOWN_INVARIANT_VIOLATION_ERROR"

\* A function that unpacks a struct without key, stores a field and
\* returns a value passed its analysis.
C5_Witness ==
    /\ ~key_unpacked
    /\ pc = "analyzed"
    /\ {Instr("Unpack", PlainStruct), Instr("StLoc", 0), Instr("Ret", 0)} \subseteq CodeRead
    /\ function_view.return_ = 1

\* ------------------------------------------------------- C10
\* C10: verify_module yields the same on a module and on the module with
\* its function definitions in another order.
C10_OrderIndependent == run = 3 => outcomes[1] = outcomes[2]

\* ------------------------------------------------------- C11
\* C11: AbstractValue::join is idempotent, commutative and associative,
\* NonID join ID is ID and NonID join NonID is NonID.
C11_LatticeLaws ==
    joined.kind = "values" =>
        /\ joined.aa = joined.a
        /\ joined.ab = joined.ba
        /\ joined.ab_c = joined.a_bc
        /\ joined.a = NonID /\ joined.b = ID => joined.ab = ID
        /\ joined.a = NonID /\ joined.b = NonID => joined.ab = NonID

\* NonID was joined with ID, and the result with NonID.
C11_Witness ==
    /\ joined.kind = "values"
    /\ joined.a = NonID /\ joined.b = ID /\ joined.c = NonID
    /\ joined.ab_c = ID

\* ------------------------------------------------------- C12
IsUnpack(bytecode) == bytecode.op \in {"Unpack", "UnpackGeneric"}

\* The struct definition the executed Pack or Unpack resolved to.
ExecutedStruct == StructDefs[ResolveStruct(executed.bytecode, FALSE).def]

\* C12: an Unpack of a struct with n fields pops one slot and pushes n
\* slots; the first is ID exactly when the struct has key, the others are
\* NonID.
C12_UnpackEffect ==
    Executed /\ IsUnpack(executed.bytecode) /\ executed.inner = OkResult =>
        LET n == num_fields(ExecutedStruct)
            base == Rest(executed.stack)
            key == has_key(StructHandles[ExecutedStruct.struct_handle])
        IN /\ Len(stack) = Len(base) + n
           /\ SubSeq(stack, 1, Len(base)) = base
           /\ \A i \in 1..n :
                 stack[Len(base) + i] = IF i = 1 /\ key THEN ID ELSE NonID

\* ------------------------------------------------------- C13
\* The indices of the locals.
Locals == 0..(MaxLocals - 1)

\* C13: the join of two states returns Changed exactly when the locals of
\* self, absent read as NonID, are not the same after the join as before.
C13_ChangedIffDiffers ==
    joined.kind = "states" =>
        (joined.changed <=>
            \E l \in Locals : Old(joined.locals, l) # Old(joined.self, l))

\* ------------------------------------------------------- C14
\* The least upper bound of two values in NonID < ID.
Lub(a, b) == IF ID \in {a, b} THEN ID ELSE NonID

\* C14: after a join every local of self, absent read as NonID, holds the
\* least upper bound of what self and the other state held; a local only
\* self has keeps its value, and no local goes from ID to NonID.
C14_PointwiseJoin ==
    joined.kind = "states" =>
        \A l \in Locals :
            /\ Old(joined.locals, l) = Lub(Old(joined.self, l), Old(joined.state, l))
            /\ l \in (DOMAIN joined.self) \ (DOMAIN joined.state) =>
                  l \in DOMAIN joined.locals /\ joined.locals[l] = joined.self[l]
            /\ Old(joined.self, l) = ID => Old(joined.locals, l) = ID

\* Local 0 went from NonID to ID, and local 1, which only self has, kept
\* its ID.
C14_Witness ==
    /\ joined.kind = "states"
    /\ joined.self = (0 :> NonID @@ 1 :> ID)
    /\ joined.state = (0 :> ID)
    /\ joined.locals = (0 :> ID @@ 1 :> ID)

\* ------------------------------------------------------- C15
\* C15: CopyLoc and MoveLoc of a local that is not in the locals map push
\* NonID and the analysis goes on.
C15_AbsentIsNonID ==
    /\ Executed
    /\ executed.bytecode.op \in {"CopyLoc", "MoveLoc"}
    /\ executed.bytecode.arg \notin DOMAIN executed.locals
    => /\ executed.inner = OkResult
       /\ stack = Push(executed.stack, NonID)

\* ------------------------------------------------------- C16
\* C16: StLoc(i) pops the top slot into locals[i]; CopyLoc(i) pushes
\* locals[i] and leaves the locals; MoveLoc(i) pushes locals[i] and removes
\* entry i; no opcode touches a local other than its own, and no opcode but
\* StLoc and MoveLoc touches the locals at all.
C16_LocalsFrame ==
    Executed =>
        LET op == executed.bytecode.op
            i == executed.bytecode.arg
            before == executed.locals
        IN /\ op \notin {"StLoc", "MoveLoc"} => state = before
           /\ \A j \in Locals \ {i} :
                 /\ j \in DOMAIN state <=> j \in DOMAIN before
                 /\ j \in DOMAIN before => state[j] = before[j]
           /\ op = "StLoc" /\ executed.stack # <<>> =>
                 /\ executed.inner = OkResult
                 /\ stack = Rest(executed.stack)
                 /\ i \in DOMAIN state /\ state[i] = Top(executed.stack)
           /\ op = "CopyLoc" /\ i \in DOMAIN before =>
                 /\ executed.inner = OkResult
                 /\ stack = Push(executed.stack, before[i])
           /\ op = "MoveLoc" /\ i \in DOMAIN before =>
                 /\ executed.inner = OkResult
                 /\ stack = Push(executed.stack, before[i])
                 /\ i \notin DOMAIN state

\* MoveLoc(0) took an ID out of local 0 and left local 1 as it was.
C16_Witness ==
    /\ Executed
    /\ executed.bytecode = Instr("MoveLoc", 0)
    /\ executed.locals = (0 :> ID @@ 1 :> NonID)
    /\ state = (1 :> NonID)
    /\ stack = Push(executed.stack, ID)

\* ------------------------------------------------------- C18
\* The opcodes of the table of stack effects other than the source and the
\* reads and writes of locals.
TableOps ==
    UnaryOps \cup BorrowFieldOps \cup BinaryOps \cup LdOps \cup BorrowLocOps
    \cup DropOps \cup NoOps \cup SinkOps \cup {"Pop", "VecUnpack", "VecSwap"}

\* The slots the executed opcode pops and pushes by the table, as
\* <<pops, pushes>>; vec_pack is what a VecPack pushes.
TableEffect(vec_pack) ==
    LET op == executed.bytecode.op
        arg == executed.bytecode.arg
    IN CASE op \in UnaryOps \cup BorrowFieldOps -> <<1, 1>>
         [] op \in BinaryOps -> <<2, 1>>
         [] op \in LdOps \cup BorrowLocOps -> <<0, 1>>
         [] op \in DropOps \cup {"Pop"} -> <<1, 0>>
         [] op = "VecUnpack" -> <<1, arg>>
         [] op = "VecSwap" -> <<3, 0>>
         [] op \in NoOps -> <<0, 0>>
         [] op = "Ret" -> <<function_view.return_, 0>>
         [] op \in {"WriteRef", "VecPushBack"} -> <<2, 0>>
         [] op = "VecPack" -> <<arg, vec_pack>>
         [] op \in {"Pack", "PackGeneric"} -> <<num_fields(ExecutedStruct), 1>>
         [] IsCall(executed.bytecode) ->
              <<ResolveCall(executed.bytecode).parameters,
                ResolveCall(executed.bytecode).return_>>

\* The executed opcode left the stack the table gives: pops slots off,
\* then pushes slots of NonID on.
StackAsTable(vec_pack) ==
    LET t == TableEffect(vec_pack)
        kept == Len(executed.stack) - t[1]
    IN /\ kept >= 0
       /\ stack = PushN(SubSeq(executed.stack, 1, kept), t[2], NonID)

\* C18 as the spec states it: the table, in which VecPack(_, n) pops n and
\* pushes nothing.
C18_TableAsStated ==
    Executed /\ executed.bytecode.op \in TableOps /\ executed.inner = OkResult
    => StackAsTable(0)

\* C18: on success every opcode of the table pops and pushes what the
\* table says, VecPack(_, n) pops n and pushes one slot, and every slot
\* pushed is NonID.
C18_StackEffects ==
    Executed /\ executed.bytecode.op \in TableOps /\ executed.inner = OkResult
    => StackAsTable(1)

\* VecPack(_, 2) took two slots off a stack of three and pushed the vector.
C18_Witness ==
    /\ Executed
    /\ executed.bytecode = Instr("VecPack", 2)
    /\ executed.stack = <<NonID, NonID, NonID>>
    /\ executed.inner = OkResult
    /\ stack = <<NonID, NonID>>

\* ------------------------------------------------------- C3
\* The call's arguments are on the stack and one of them is ID.
CallWithID ==
    /\ Executed
    /\ IsCall(executed.bytecode)
    /\ Len(executed.stack) >= ResolveCall(executed.bytecode).parameters
    /\ ID \in TopSlots(executed.stack, ResolveCall(executed.bytecode).parameters)

\* C3: a Call or CallGeneric that pops an ID argument succeeds if and only
\* if the callee is at the framework address and is object::delete or
\* transfer::delete_child_object; in every other case, the cross pairs
\* included, it gives the leak error "through function call".
C3_AllowlistMatching ==
    CallWithID =>
        /\ executed.inner = OkResult <=> Allowlisted(executed.bytecode)
        /\ ~Allowlisted(executed.bytecode) =>
              /\ IsLeak(executed.inner)
              /\ executed.inner.message[3] = "through function call"

\* A call with an ID argument to object::delete of the framework went through.
C3_Witness ==
    /\ CallWithID
    /\ Allowlisted(executed.bytecode)
    /\ executed.inner = OkResult

\* ------------------------------------------------------- C17
\* The module handle of the callee of the executed call.
CalleeModule == ModuleHandles[ResolveCall(executed.bytecode).module]

\* The names of the module and of the function the executed call names.
CalleeName == <<CalleeModule.name, ResolveCall(executed.bytecode).name>>

\* C17 as the spec states it: a call that passes an ID to a function named
\* delete_child_object in a module named transfer is accepted, whatever the
\* address of the module.
C17_TransferByNameOnly ==
    CallWithID /\ CalleeName = <<"transfer", "delete_child_object">>
    => executed.inner = OkResult

\* C17: a call that passes an ID to transfer::delete_child_object or to
\* object::delete is accepted exactly when the module is at the framework
\* address; at any other address it gives the leak error of a call.
C17_BothNeedFramework ==
    CallWithID /\ CalleeName \in {<<"transfer", "delete_child_object">>,
                                  <<OBJECT_MODULE_NAME, "delete">>}
    => /\ executed.inner = OkResult <=> CalleeModule.address = SUI_FRAMEWORK_ADDRESS
       /\ CalleeModule.address # SUI_FRAMEWORK_ADDRESS =>
             executed.inner = move_verification_error(MsgCall)

\* An ID went to transfer::delete_child_object of a module that is not at
\* the framework address, and the call was rejected.
C17_Witness ==
    /\ CallWithID
    /\ CalleeName = <<"transfer", "delete_child_object">>
    /\ CalleeModule.address # SUI_FRAMEWORK_ADDRESS
    /\ IsLeak(executed.inner)

\* ------------------------------------------------------- C4
\* C4 as stated: when any slot a sink pops holds ID (the stack holding all
\* the slots it pops), the transfer returns a leak error, unless the sink is
\* a call of an allowlisted callee.
C4_AnyPoppedSlot ==
    /\ Executed
    /\ executed.bytecode.op \in SinkOps
    /\ Len(executed.stack) >= Popped(executed.bytecode, function_view)
    /\ ID \in TopSlots(executed.stack, Popped(executed.bytecode, function_view))
    /\ ~(IsCall(executed.bytecode) /\ Allowlisted(executed.bytecode))
    => IsLeak(executed.inner)

\* A sink has a value operand that holds ID, and is no allowlisted call.
SinkTakesID ==
    /\ Executed
    /\ executed.bytecode.op \in SinkOps
    /\ ID \in ValueOperands(executed.bytecode, executed.stack, function_view)
    /\ ~(IsCall(executed.bytecode) /\ Allowlisted(executed.bytecode))

\* C4, amended: when a value operand of a sink holds ID (any slot Ret,
\* VecPack, Pack, PackGeneric, Call or CallGeneric pops; the slot under the
\* reference for WriteRef; the top slot for VecPushBack), the transfer
\* returns a leak error, unless the sink is a call of an allowlisted callee.
C4_SinkSoundness == SinkTakesID => IsLeak(executed.inner)

\* A WriteRef whose value operand is ID was refused.
C4_Witness ==
    /\ SinkTakesID
    /\ executed.bytecode.op = "WriteRef"
    /\ IsLeak(executed.inner)

\* ------------------------------------------------------- C6
DebugAssertStack ==
    PanicResult("Invalid stack transitions. Non-zero stack size at the end of the block")

\* C6 as stated: a last opcode whose transfer succeeds with a non-empty
\* stack fails with the invariant-violation status.
C6_AlwaysStatus ==
    /\ Executed
    /\ executed.inner = OkResult
    /\ executed.is_last
    /\ stack # <<>>
    => executed.res = InvariantViolation

\* C6, amended: when the transfer of the last opcode of a block succeeds and
\* the stack is not empty, the analysis fails, with the invariant-violation
\* status or, in a build with debug assertions, by the abort of the debug
\* assertion, and never with a leak status; when the stack is empty then, or
\* the opcode is not the last of its block, the check raises nothing.
C6_EndOfBlock ==
    Executed /\ executed.inner = OkResult =>
        IF executed.is_last /\ stack # <<>>
        THEN /\ executed.res \in {InvariantViolation, DebugAssertStack}
             /\ ~IsLeak(executed.res)
        ELSE executed.res = OkResult

\* A last opcode left a slot on the stack and the invariant violation came.
C6_Witness ==
    /\ Executed
    /\ executed.inner = OkResult
    /\ executed.is_last
    /\ stack # <<>>
    /\ executed.res = InvariantViolation

\* ------------------------------------------------------- C7
\* C7: when the transfer reaches a global storage opcode, verify_module
\* returns an error with the invariant violation status.
C7_ForbiddenIsInvariantViolation ==
    executed.bytecode.op \in GlobalStorageOps =>
        /\ pc = "returned"
        /\ result.kind = "Err"
        /\ result.status = "UNKNOWN_INVARIANT_VIOLATION_ERROR"

\* ------------------------------------------------------- C8
\* C8: the function definitions are consumed in the order of declaration;
\* the first analysis that fails ends verify_module with its error, and no
\* later function is analyzed; Ok is returned exactly when no analysis
\* failed.
C8_ShortCircuit ==
    /\ first_error # NoError =>
          /\ pc = "returned"
          /\ index = first_error.index
          /\ result = map_err(first_error.error)
    /\ pc = "returned" /\ first_error = NoError => result = map_err(OkResult)
    /\ result.kind = "Ok" => pc = "returned" /\ first_error = NoError
    /\ pc # "returned" => result = Running

\* The first definition passed or had no body, and the second one leaks.
C8_Witness ==
    /\ pc = "returned"
    /\ first_error.index = 1
    /\ IsLeak(result)
    /\ result.location = "Module"

\* ------------------------------------------------------- C19
\* The executed opcode is no sink, or is a call of an allowlisted callee,
\* and the stack held the slots it pops, an ID among them.
ConsumesID ==
    /\ Executed
    /\ \/ executed.bytecode.op \in (TableOps \ SinkOps) \cup {"StLoc"}
       \/ IsCall(executed.bytecode) /\ Allowlisted(executed.bytecode)
    /\ LET pops == IF executed.bytecode.op = "StLoc" THEN 1 ELSE TableEffect(1)[1]
       IN /\ Len(executed.stack) >= pops
          /\ ID \in TopSlots(executed.stack, pops)

\* C19: a leak error comes only from a sink whose value operand holds ID
\* and that is no allowlisted call; an ID that any other opcode, or an
\* allowlisted call, consumes never makes the transfer fail.
C19_OnlySinksReject ==
    /\ Executed /\ IsLeak(executed.inner) => SinkTakesID
    /\ ConsumesID => executed.inner = OkResult

\* An ID was dropped by Pop, and the transfer went on.
C19_Witness ==
    /\ ConsumesID
    /\ executed.bytecode.op = "Pop"
    /\ executed.stack = <<ID>>
    /\ executed.inner = OkResult
    /\ stack = <<>>

\* ------------------------------------------------------- C20
\* The first opcode of a block is about to be executed.
AtBlockEntry == pc = "execute" /\ offset = 0

\* C20: the operand stack is empty whenever the first opcode of a block
\* is about to be executed, on the first analysis of the block and on
\* every later one.
C20_EmptyAtBlockEntry == AtBlockEntry => stack = <<>>

\* A block is entered for the second time, after a block whose last
\* opcode took the last slot off the stack.
C20_Witness ==
    /\ AtBlockEntry
    /\ visits[block_id] >= 2
    /\ executed.stack # <<>>
    /\ stack = <<>>

\* ------------------------------------------------------- C9
\* The sub-message of the sink that fired.
SubMessage(op) ==
    CASE op = "Ret" -> "through function return"
      [] op \in {"Call", "CallGeneric"} -> "through function call"
      [] op \in {"Pack", "PackGeneric"} -> "into a struct"
      [] op \in {"VecPack", "VecPushBack"} -> "into a vector"
      [] op = "WriteRef" -> "to a reference"
      [] OTHER -> "none"

\* The analysis is at the first opcode of the function: analyze_function
\* was just given the initial state.
AtFunctionEntry ==
    pc = "execute" /\ block_id = 0 /\ offset = 0 /\ visits = (0 :> 1)

\* The places of the module whose definition run r analyzed.
AnalyzedIn(r) == {p \in 1..Len(module) : analyzed[r][p] # NotAnalyzed}

\* The step of the loop of run r that reaches the definition at place p.
Turn(r, p) == IF r = 1 THEN p ELSE CHOOSE j \in 1..Len(order) : order[j] = p

\* The definitions run r analyzed before the one at place p.
AnalyzedBefore(r, p) == {module[q] : q \in {a \in AnalyzedIn(r) : Turn(r, a) < Turn(r, p)}}

\* C21: the analysis of a function starts with an empty operand stack and
\* the initial state of that function, and what the analysis of a function
\* definition gives (Ok, an error, or no end) is the same in every place
\* of the module and in either order of the module, whatever was analyzed
\* before it.
C21_PerFunctionIsolation ==
    /\ AtFunctionEntry =>
          /\ stack = <<>>
          /\ state = AbstractState_new(function_view)
          /\ inv_map = (0 :> AbstractState_new(function_view))
    /\ run = 3 =>
          \A r1 \in 1..2, r2 \in 1..2 :
             \A p \in AnalyzedIn(r1), q \in AnalyzedIn(r2) :
                module[p] = module[q] => analyzed[r1][p] = analyzed[r2][q]

\* Both runs are over; a definition that returns Ok and one that leaks an
\* id were each analyzed in both runs, after different definitions.
C21_Witness ==
    /\ run = 3
    /\ \E p \in AnalyzedIn(1) \cap AnalyzedIn(2) :
          /\ analyzed[1][p].kind = "Ok" /\ analyzed[2][p].kind = "Ok"
          /\ AnalyzedBefore(1, p) # AnalyzedBefore(2, p)
    /\ \E p \in AnalyzedIn(1) \cap AnalyzedIn(2) :
          /\ analyzed[1][p].kind = "Err" /\ analyzed[2][p].kind = "Err"
          /\ AnalyzedBefore(1, p) # AnalyzedBefore(2, p)

\* C22: at the entry of a function with n parameters the abstract state
\* (and the entry state of block 0) has an entry for the locals 0..n-1 and
\* for no other, and every entry is NonID.
C22_InitialState ==
    AtFunctionEntry =>
        \A locals \in {state, inv_map[0]} :
           /\ DOMAIN locals = {l \in Locals : l < function_view.parameters}
           /\ \A l \in DOMAIN locals : locals[l] = NonID

\* The analysis is at the entry of a function that has a parameter, and
\* a local that is not a parameter.
C22_Witness ==
    /\ AtFunctionEntry
    /\ function_view.parameters > 0
    /\ function_view.parameters \in Locals
    /\ state = [l \in 0..(function_view.parameters - 1) |-> NonID]

\* C9: every leak has the status UNKNOWN_VERIFICATION_ERROR and a message
\* that starts with "Sui Move Bytecode Verification Error: " and carries
\* the sub-message of the sink that fired; no leak has the
\* invariant-violation status, and nothing else has the leak status.
C9_LeakTaxonomy ==
    /\ SinkTakesID =>
          /\ executed.inner.kind = "Err"
          /\ executed.inner.status = "UNKNOWN_VERIFICATION_ERROR"
          /\ executed.inner.status # "UNKNOWN_INVARIANT_VIOLATION_ERROR"
          /\ executed.inner.message[1] = "Sui Move Bytecode Verification Error: "
          /\ executed.inner.message[3] = SubMessage(executed.bytecode.op)
          /\ executed.res = executed.inner
    /\ Executed /\ executed.res.status = "UNKNOWN_VERIFICATION_ERROR" => SinkTakesID

\* A VecPushBack of an ID gave "into a vector".
C9_Witness ==
    /\ SinkTakesID
    /\ executed.bytecode.op = "VecPushBack"
    /\ executed.res.message[3] = "into a vector"
====
